---- MODULE Spec2Model ----
(***************************************************************************)
(* A model of the iCal Event Notes plugin (src/main.ts): the date          *)
(* normaliser, the occurrence expander, the relevance scorer, the          *)
(* 'Create/Open Note from Event' command and the refresh() driver with its *)
(* suspension points at each fetch.                                        *)
(*                                                                         *)
(* Instants are integer milliseconds since the epoch, as Date.getTime().   *)
(*                                                                         *)
(* Spec is the plugin's refresh() calls and settings edits interleaved;    *)
(* the command callback only reads the cache and is run, under SpecPicker, *)
(* on every loaded cache; SpecExpand and SpecRelevance call the two pure   *)
(* functions directly on bounded inputs.                                   *)
(***************************************************************************)
EXTENDS Integers, Sequences, FiniteSets, TLC

VARIABLES
    calendarSources,   \* settings.calendarSources: sequence of source urls
    cacheEvents,       \* settings.cache.events: sequence of CachedEvent
    runs,              \* the refresh() calls made: position, iterator, local result
    saved,             \* what saveData last persisted (the settings as JSON)
    edits,             \* number of edits made in the settings tab
    presented,         \* the list the command handed to CalendarEventsModal
    fnArgs,            \* arguments of a direct call of a pure function
    fnRet,             \* what that call returned (or that it threw)
    timer,             \* the platform, settings.refreshIntervalMinutes, the interval
    vault              \* the notes of the vault and the selections made in the picker

vars == <<calendarSources, cacheEvents, runs, saved, edits, presented, fnArgs, fnRet,
          timer, vault>>

(***************************************************************************)
(* Program constants.                                                      *)
(***************************************************************************)
searchLookahead == 24 * 60 * 60 * 1000
searchLookbehind == 60 * 60 * 1000

\* Number.MAX_VALUE: larger than every minute count the scorer can return.
NumberMAX_VALUE == 2147483647

(***************************************************************************)
(* Values of event.start.date / event.end.date: a Date object (valid or    *)
(* Invalid Date), a string (as after a reload of the persisted JSON), or   *)
(* undefined.  Every value is a record with the same fields.               *)
(***************************************************************************)
DateObj(t)    == [kind |-> "Date", t |-> t, s |-> ""]
InvalidDate   == [kind |-> "InvalidDate", t |-> 0, s |-> ""]
DateStr(s)    == [kind |-> "string", t |-> 0, s |-> s]
UndefinedDate == [kind |-> "undefined", t |-> 0, s |-> ""]

\* Results of Date.getTime() behind optional chaining: a number, NaN, undefined.
Num(v)       == [tag |-> "num", v |-> v]
NaN          == [tag |-> "NaN", v |-> 0]
UndefinedNum == [tag |-> "undefined", v |-> 0]

\* JavaScript's !x for such a value: undefined, NaN and 0 are falsy.
Falsy(x) == x.tag # "num" \/ x.v = 0

(***************************************************************************)
(* Date.prototype.toISOString: "YYYY-MM-DDTHH:mm:ss.sssZ" of an instant,   *)
(* by the proleptic Gregorian calendar (days-to-civil conversion).         *)
(***************************************************************************)
Pad2(n) == IF n < 10 THEN "0" \o ToString(n) ELSE ToString(n)
Pad3(n) == IF n < 10 THEN "00" \o ToString(n)
           ELSE IF n < 100 THEN "0" \o ToString(n) ELSE ToString(n)
Pad4(n) == IF n < 10 THEN "000" \o ToString(n)
           ELSE IF n < 100 THEN "00" \o ToString(n)
           ELSE IF n < 1000 THEN "0" \o ToString(n) ELSE ToString(n)

MsPerDay == 24 * 60 * 60 * 1000

CivilFromDays(days) ==
    LET z   == days + 719468
        era == z \div 146097
        doe == z - era * 146097
        yoe == (doe - doe \div 1460 + doe \div 36524 - doe \div 146096) \div 365
        doy == doe - (365 * yoe + yoe \div 4 - yoe \div 100)
        mp  == (5 * doy + 2) \div 153
        d   == doy - (153 * mp + 2) \div 5 + 1
        m   == IF mp < 10 THEN mp + 3 ELSE mp - 9
        y   == yoe + era * 400 + (IF m <= 2 THEN 1 ELSE 0)
    IN  [y |-> y, m |-> m, d |-> d]

ISODate(t) ==
    LET c == CivilFromDays(t \div MsPerDay)
    IN  Pad4(c.y) \o "-" \o Pad2(c.m) \o "-" \o Pad2(c.d)

toISOString(t) ==
    LET r == t % MsPerDay
    IN  ISODate(t) \o "T" \o Pad2(r \div 3600000) \o ":"
          \o Pad2((r % 3600000) \div 60000) \o ":"
          \o Pad2((r % 60000) \div 1000) \o "." \o Pad3(r % 1000) \o "Z"

(***************************************************************************)
(* The instants the model draws its inputs from: the epoch itself and the  *)
(* boundaries of the relevance window around a reference "now"             *)
(* (1970-01-03T10:00:00Z).                                                 *)
(***************************************************************************)
NowA == 2 * MsPerDay + 10 * 60 * 60 * 1000

Nows == {NowA, NowA + 1}

Offsets == {0 - searchLookbehind - 1, 0 - searchLookbehind, -60000, -1, 0, 1,
            59999, 60000, searchLookahead, searchLookahead + 1}

TimePoints == {0} \cup {NowA + o : o \in Offsets}

\* Instants that also occur as persisted (JSON) date strings.
StringPoints == {NowA - 60000, NowA - 1, NowA + 60000}

\* The base start and end of the recurring series: 1970-01-01, 09:00 to 09:15.
NineOClock == 9 * 60 * 60 * 1000
QuarterHour == 15 * 60 * 1000

\* Every instant whose ISO string occurs in the model.
KnownInstants == TimePoints \cup {NineOClock, NineOClock + QuarterHour}

DateValues ==
    {DateObj(t) : t \in TimePoints}
      \cup {DateStr(toISOString(t)) : t \in StringPoints}
      \cup {DateStr("not a date"), InvalidDate, UndefinedDate}

(***************************************************************************)
(* new Date(string).getTime(): the instant an ISO string denotes, NaN for  *)
(* any other text.                                                         *)
(***************************************************************************)
DateParse(s) ==
    IF \E t \in KnownInstants : toISOString(t) = s
    THEN Num(CHOOSE t \in KnownInstants : toISOString(t) = s)
    ELSE NaN

\* Date.prototype.getTime behind ?. : undefined for a missing date.
getTime(d) ==
    CASE d.kind = "Date"        -> Num(d.t)
      [] d.kind = "InvalidDate" -> NaN
      [] OTHER                  -> UndefinedNum

normalizeDate(date) ==
    IF date.kind \in {"Date", "InvalidDate"} THEN date
    ELSE IF date.kind = "string" /\ DateParse(date.s).tag = "num"
         THEN DateObj(DateParse(date.s).v)
         ELSE UndefinedDate

(***************************************************************************)
(* CachedEvent: the fields of an IcsEvent the plugin reads, and its        *)
(* calendar source.  start/end hold the .date of the date object.          *)
(***************************************************************************)
NoRule == [present |-> FALSE, first |-> 0, every |-> 0]
Rule(first, every) == [present |-> TRUE, first |-> first, every |-> every]

NoRecurrenceId == [present |-> FALSE, str |-> ""]
RecurrenceId(str) == [present |-> TRUE, str |-> str]

Event(uid, rid, start, end, rule, duration, source) ==
    [uid |-> uid, recurrenceId |-> rid, start |-> start, end |-> end,
     recurrenceRule |-> rule, duration |-> duration, calendarSource |-> source]

\* eventRelevance with only the start tested before the comparisons: with
\* an end that is undefined or NaN every comparison of end is false.
eventRelevance_checksStartOnly(event, now) ==
    LET nowMilis == now
        cutoffLookbehind == nowMilis - searchLookbehind
        cutoffLookahead == nowMilis + searchLookahead
        start == getTime(normalizeDate(event.start))
        end == getTime(normalizeDate(event.end))
    IN  IF Falsy(start) THEN -1
        ELSE IF end.tag = "num" /\ start.v < nowMilis /\ end.v > nowMilis
             THEN NumberMAX_VALUE
        ELSE IF end.tag = "num" /\ end.v < nowMilis /\ end.v >= cutoffLookbehind
             THEN (nowMilis - end.v) \div 60000
        ELSE IF start.v > nowMilis /\ start.v <= cutoffLookahead
             THEN (start.v - nowMilis) \div 60000
        ELSE -1

eventRelevance(event, now) ==
    LET nowMilis == now
        cutoffLookbehind == nowMilis - searchLookbehind
        cutoffLookahead == nowMilis + searchLookahead
        start == getTime(normalizeDate(event.start))
        end == getTime(normalizeDate(event.end))
    IN  IF Falsy(start) \/ Falsy(end) THEN -1
        ELSE IF start.v < nowMilis /\ end.v > nowMilis THEN NumberMAX_VALUE
        ELSE IF end.v < nowMilis /\ end.v >= cutoffLookbehind
             THEN (nowMilis - end.v) \div 60000
        ELSE IF start.v > nowMilis /\ start.v <= cutoffLookahead
             THEN (start.v - nowMilis) \div 60000
        ELSE -1


(***************************************************************************)
(* The outcome of a call: not made yet, a returned value, or an exception. *)
(***************************************************************************)
NotCalled == [called |-> FALSE, threw |-> FALSE, value |-> <<>>]
Returned(v) == [called |-> TRUE, threw |-> FALSE, value |-> <<v>>]
Threw == [called |-> TRUE, threw |-> TRUE, value |-> <<>>]

\* No direct call: the plugin itself is running.
NoArgs == [events |-> <<>>, now |-> 0]

(***************************************************************************)
(* extendByRecurrenceRule(rule, {start, end}) of ts-ics: the ordered start *)
(* instants of the series inside the window, both ends included.  A rule   *)
(* is modelled by the instants it denotes: first, first + every, ...       *)
(***************************************************************************)
extendByRecurrenceRule(rule, start, end) ==
    LET n0 == IF rule.first >= start THEN 0
              ELSE (start - rule.first + rule.every - 1) \div rule.every
        n1 == IF end < rule.first THEN -1 ELSE (end - rule.first) \div rule.every
    IN  IF n1 < n0 THEN <<>>
        ELSE [i \in 1..(n1 - n0 + 1) |-> rule.first + (n0 + i - 1) * rule.every]

(***************************************************************************)
(* The callback of events.flatMap in expandRelevantEvents: the occurrences *)
(* of one event, or the TypeError of calling getTime() on a date that is   *)
(* undefined or a string.                                                  *)
(***************************************************************************)
HasGetTime(d) == d.kind \in {"Date", "InvalidDate"}

\* new Date(a + (b - c)) on getTime() results: NaN makes an Invalid Date.
DatePlusDuration(d, endT, startT) ==
    IF endT.tag = "num" /\ startT.tag = "num"
    THEN DateObj(d + (endT.v - startT.v))
    ELSE InvalidDate

\* occurrenceOf with the base event's end kept: the duration of the series is
\* not carried over to the occurrence.
occurrenceOf_keepsBaseEnd(event, date) ==
    [event EXCEPT
        !.uid = (IF event.recurrenceId.present THEN event.recurrenceId.str
                 ELSE event.uid) \o "-" \o toISOString(date),
        !.start = DateObj(date),
        !.recurrenceRule = NoRule,
        !.duration = "undefined"]

\* occurrenceOf with the recurrence rule of the series kept on the occurrence.
occurrenceOf_keepsRule(event, date) ==
    [event EXCEPT
        !.uid = (IF event.recurrenceId.present THEN event.recurrenceId.str
                 ELSE event.uid) \o "-" \o toISOString(date),
        !.start = DateObj(date),
        !.end = DatePlusDuration(date, getTime(event.end), getTime(event.start)),
        !.duration = "undefined"]

occurrenceOf(event, date) ==
    [event EXCEPT
        !.uid = (IF event.recurrenceId.present THEN event.recurrenceId.str
                 ELSE event.uid) \o "-" \o toISOString(date),
        !.start = DateObj(date),
        !.end = DatePlusDuration(date, getTime(event.end), getTime(event.start)),
        !.recurrenceRule = NoRule,
        !.duration = "undefined"]

\* expandEvent with the rule and duration cleared on every event, recurring
\* or not.
expandEvent_clearsPlainEvents(event, now) ==
    IF ~event.recurrenceRule.present
    THEN Returned(<<[event EXCEPT !.recurrenceRule = NoRule, !.duration = "undefined"]>>)
    ELSE LET start == now - searchLookbehind
             end == now + searchLookahead
             recurrences == extendByRecurrenceRule(event.recurrenceRule, start, end)
         IN  IF recurrences # <<>> /\ ~(HasGetTime(event.end) /\ HasGetTime(event.start))
             THEN Threw
             ELSE Returned([i \in 1..Len(recurrences) |->
                               occurrenceOf(event, recurrences[i])])

expandEvent(event, now) ==
    IF ~event.recurrenceRule.present THEN Returned(<<event>>)
    ELSE LET start == now - searchLookbehind
             end == now + searchLookahead
             recurrences == extendByRecurrenceRule(event.recurrenceRule, start, end)
         IN  IF recurrences # <<>> /\ ~(HasGetTime(event.end) /\ HasGetTime(event.start))
             THEN Threw
             ELSE Returned([i \in 1..Len(recurrences) |->
                               occurrenceOf(event, recurrences[i])])

RECURSIVE flatMapExpand(_, _)
flatMapExpand(events, now) ==
    IF events = <<>> THEN Returned(<<>>)
    ELSE LET head == expandEvent(Head(events), now)
             rest == flatMapExpand(Tail(events), now)
         IN  IF head.threw \/ rest.threw THEN Threw
             ELSE Returned(head.value[1] \o rest.value[1])

expandRelevantEvents(events, now) == flatMapExpand(events, now)

(***************************************************************************)
(* The callback of the 'Create/Open Note from Event' command: score every  *)
(* cached event, keep those with relevance > 0, sort by relevanceA -       *)
(* relevanceB (Array.prototype.sort is stable) and open the picker on the  *)
(* events of the sorted pairs.                                             *)
(***************************************************************************)
NotOpened == [open |-> FALSE, now |-> 0, events |-> <<>>]

scoreEvents(events, now) ==
    [i \in 1..Len(events) |-> <<events[i], eventRelevance(events[i], now)>>]

keepPair(pair) == pair[2] > 0

compareRelevance(a, b) == a[2] - b[2]

\* Insert pair p into the sorted sequence after every element that does not
\* compare greater than it.
RECURSIVE insertSorted(_, _)
insertSorted(sorted, p) ==
    IF sorted = <<>> THEN <<p>>
    ELSE IF compareRelevance(Head(sorted), p) > 0 THEN <<p>> \o sorted
    ELSE <<Head(sorted)>> \o insertSorted(Tail(sorted), p)

RECURSIVE sortPairs(_)
sortPairs(pairs) ==
    IF pairs = <<>> THEN <<>>
    ELSE insertSorted(sortPairs(SubSeq(pairs, 1, Len(pairs) - 1)), pairs[Len(pairs)])

\* relevantEvents with the list cut to its first event before it is scored
\* and sorted.
relevantEvents_limitsBeforeSort(events, now) ==
    LET first == IF events = <<>> THEN <<>> ELSE <<events[1]>>
        sorted == sortPairs(SelectSeq(scoreEvents(first, now), keepPair))
    IN  [i \in 1..Len(sorted) |-> sorted[i][1]]

relevantEvents(events, now) ==
    LET sorted == sortPairs(SelectSeq(scoreEvents(events, now), keepPair))
    IN  [i \in 1..Len(sorted) |-> sorted[i][1]]

CreateNoteFromEvent ==
    \E now \in Nows :
        /\ presented' = [open |-> TRUE, now |-> now,
                         events |-> relevantEvents(cacheEvents, now)]
        /\ UNCHANGED <<calendarSources, cacheEvents, runs, saved, edits, fnArgs, fnRet,
                       timer, vault>>

(***************************************************************************)
(* saveSettings(): saveData(this.settings) persists the settings as JSON.  *)
(* JSON.stringify turns a Date into its ISO string, an Invalid Date into   *)
(* null, and leaves a string as it is; an undefined date is left out.      *)
(***************************************************************************)
NullDate == [kind |-> "null", t |-> 0, s |-> ""]

toJSONDate(d) ==
    CASE d.kind = "Date"        -> DateStr(toISOString(d.t))
      [] d.kind = "InvalidDate" -> NullDate
      [] OTHER                  -> d

toJSONEvents(events) ==
    [i \in 1..Len(events) |->
        [events[i] EXCEPT !.start = toJSONDate(@), !.end = toJSONDate(@)]]

NothingSaved == [written |-> FALSE, calendarSources |-> <<>>, events |-> <<>>]

saveData(sources, events) ==
    [written |-> TRUE, calendarSources |-> sources, events |-> toJSONEvents(events)]

(***************************************************************************)
(* The calendar feeds.  A source is modelled by its url; "" is the url of  *)
(* a source just added in the settings tab.  What a feed serves changes    *)
(* over time: each fetch gets one of FeedVersions lists of events, as      *)
(* convertIcsCalendar parses them.                                         *)
(***************************************************************************)
Urls == {"a", "b"}

FeedVersions == {1, 2}

Feed(url, version) ==
    IF url = "a"
    THEN IF version = 1
         THEN <<Event("a1", NoRecurrenceId, DateObj(NowA - 60000),
                      DateObj(NowA + 60000), NoRule, "undefined", "")>>
         ELSE <<Event("a2", NoRecurrenceId, DateObj(NowA + 60000),
                      DateObj(NowA + searchLookahead), NoRule, "undefined", "")>>
    ELSE IF version = 1
         THEN <<Event("b1", NoRecurrenceId, DateObj(NowA - searchLookbehind),
                      DateObj(NowA - 60000), NoRule, "undefined", "")>>
         ELSE <<Event("b2", NoRecurrenceId, DateObj(NowA - 60000),
                      DateStr("not a date"), NoRule, "undefined", "")>>

\* The map of refresh(): normalise both dates and tag the event with its source.
normalizedEvents(events, source) ==
    [i \in 1..Len(events) |->
        [events[i] EXCEPT !.start = normalizeDate(@), !.end = normalizeDate(@),
                          !.calendarSource = source]]

(***************************************************************************)
(* refresh().  A call runs up to its first await inside the handler that   *)
(* made it; it is then suspended at requestUrl and resumed when the fetch  *)
(* settles.  The for-of loop iterates the live settings.calendarSources    *)
(* array: the iterator keeps an index and reads the array's length again   *)
(* at every step.                                                          *)
(***************************************************************************)
MaxRuns == 2
MaxSources == 2
MaxEdits == 1

Triggers == {"command", "interval", "focus", "blur", "button"}

\* fetched and sources are history: the fetches the call has made and the
\* source list as it was when the call started.
Run(pc, i, url, result, fetched, sources) ==
    [pc |-> pc, i |-> i, url |-> url, result |-> result, fetched |-> fetched,
     sources |-> sources]

\* A call that is over: its locals are gone, how it ended is kept.
Finished(how) == Run(how, 0, "", <<>>, <<>>, <<>>)

\* refresh() up to its first suspension: no source configured opens the
\* modal and returns; otherwise the first source is requested.
refreshCall ==
    IF Len(calendarSources) = 0
    THEN Finished("nosource")
    ELSE Run("fetching", 1, calendarSources[1], <<>>, <<>>, calendarSources)

\* A call of refresh() by one of its triggers.
refresh ==
    \E trigger \in Triggers :
        /\ Len(runs) < MaxRuns
        /\ runs' = Append(runs, refreshCall)
        /\ UNCHANGED <<calendarSources, cacheEvents, saved, edits, presented, fnArgs, fnRet,
                       timer, vault>>

\* requestUrl rejects (transport error), or convertIcsCalendar throws: the
\* promise of refresh() rejects.
FetchThrows(r) ==
    /\ r <= Len(runs)
    /\ runs[r].pc = "fetching"
    /\ runs' = [runs EXCEPT ![r] = Finished("rejected")]
    /\ UNCHANGED <<calendarSources, cacheEvents, saved, edits, presented, fnArgs, fnRet,
                   timer, vault>>

\* FetchFails with the cache assigned and saved on the early return: the
\* events pushed so far become the cache.
FetchFails_assignsPartialResult(r) ==
    /\ r <= Len(runs)
    /\ runs[r].pc = "fetching"
    /\ runs[r].url # ""
    /\ runs' = [runs EXCEPT ![r] = Finished("aborted")]
    /\ cacheEvents' = runs[r].result
    /\ saved' = saveData(calendarSources, runs[r].result)
    /\ UNCHANGED <<calendarSources, edits, presented, fnArgs, fnRet, timer, vault>>

\* res.status !== 200 || !res.text: refresh() returns.  (The request of the
\* empty url of a source just added gets no response at all: it throws.)
FetchFails(r) ==
    /\ r <= Len(runs)
    /\ runs[r].pc = "fetching"
    /\ runs[r].url # ""
    /\ runs' = [runs EXCEPT ![r] = Finished("aborted")]
    /\ UNCHANGED <<calendarSources, cacheEvents, saved, edits, presented, fnArgs, fnRet,
                   timer, vault>>

\* FetchSucceeds with the cache assigned inside the loop, after every source.
FetchSucceeds_assignsCacheInLoop(r) ==
    \E version \in FeedVersions :
        LET run == runs[r]
            result == run.result \o normalizedEvents(Feed(run.url, version), run.url)
            fetched == Append(run.fetched, <<run.url, version>>)
        IN  /\ r <= Len(runs)
            /\ run.pc = "fetching"
            /\ run.url # ""
            /\ IF run.i + 1 <= Len(calendarSources)
               THEN runs' = [runs EXCEPT ![r] =
                                Run("fetching", run.i + 1,
                                    calendarSources[run.i + 1], result, fetched,
                                    run.sources)]
               ELSE runs' = [runs EXCEPT ![r] = Finished("done")]
            /\ cacheEvents' = result
            /\ saved' = saveData(calendarSources, result)
            /\ UNCHANGED <<calendarSources, edits, presented, fnArgs, fnRet,
                           timer, vault>>

\* A 200 response with text: the events are normalised and pushed; then the
\* next source is requested, or, the array exhausted, the cache is assigned
\* and the settings are saved.
FetchSucceeds(r) ==
    \E version \in FeedVersions :
        LET run == runs[r]
            result == run.result \o normalizedEvents(Feed(run.url, version), run.url)
            fetched == Append(run.fetched, <<run.url, version>>)
        IN  /\ r <= Len(runs)
            /\ run.pc = "fetching"
            /\ run.url # ""
            /\ IF run.i + 1 <= Len(calendarSources)
               THEN /\ runs' = [runs EXCEPT ![r] =
                                   Run("fetching", run.i + 1,
                                       calendarSources[run.i + 1], result, fetched,
                                       run.sources)]
                    /\ UNCHANGED <<cacheEvents, saved, timer, vault>>
               ELSE /\ runs' = [runs EXCEPT ![r] = Finished("done")]
                    /\ cacheEvents' = result
                    /\ saved' = saveData(calendarSources, result)
            /\ UNCHANGED <<calendarSources, edits, presented, fnArgs, fnRet,
                           timer, vault>>

(***************************************************************************)
(* The settings tab: '+ Add Calendar', the url input of a row, and the     *)
(* remove button of a row.  Each saves the settings.                       *)
(***************************************************************************)
AddCalendar ==
    /\ edits < MaxEdits
    /\ edits' = edits + 1
    /\ Len(calendarSources) < MaxSources
    /\ calendarSources' = Append(calendarSources, "")
    /\ saved' = saveData(calendarSources', cacheEvents)
    /\ UNCHANGED <<cacheEvents, runs, presented, fnArgs, fnRet, timer, vault>>

EditUrl(index) ==
    \E url \in Urls :
        /\ edits < MaxEdits
        /\ edits' = edits + 1
        /\ index \in 1..Len(calendarSources)
        /\ calendarSources[index] # url
        /\ calendarSources' = [calendarSources EXCEPT ![index] = url]
        /\ saved' = saveData(calendarSources', cacheEvents)
        /\ UNCHANGED <<cacheEvents, runs, presented, fnArgs, fnRet, timer, vault>>

RemoveCalendar(index) ==
    /\ edits < MaxEdits
    /\ edits' = edits + 1
    /\ index \in 1..Len(calendarSources)
    /\ calendarSources' = [k \in 1..(Len(calendarSources) - 1) |->
                              IF k < index THEN calendarSources[k]
                              ELSE calendarSources[k + 1]]
    /\ saved' = saveData(calendarSources', cacheEvents)
    /\ UNCHANGED <<cacheEvents, runs, presented, fnArgs, fnRet, timer, vault>>

(***************************************************************************)
(* The automatic refresh.  onload() registers one interval, unless the     *)
(* platform is the mobile app, with the delay settings.                    *)
(* refreshIntervalMinutes has at that moment; the settings tab changes the *)
(* setting and saves it.  Time is counted in minutes.                      *)
(***************************************************************************)
DefaultRefreshIntervalMinutes == 15

\* Values of the setting: the slider goes from 5 to 60 in steps of 5.
RefreshIntervals == {5, 10, 15}

\* Minutes the model lets pass on a platform without interval.
MaxIdle == 3

\* period is the delay of the registered interval (0: none registered),
\* elapsed the minutes since its callback last ran (or since onload), fires
\* the number of its calls, changed whether the setting changed since then.
Registered(isMobileApp, minutes) ==
    [isMobileApp |-> isMobileApp, refreshIntervalMinutes |-> minutes,
     period |-> IF isMobileApp THEN 0 ELSE minutes,
     elapsed |-> 0, fires |-> 0, changed |-> FALSE]

\* A minute passes; an interval that is due runs its callback first.
Tick ==
    /\ timer.elapsed < (IF timer.period > 0 THEN timer.period ELSE MaxIdle)
    /\ timer' = [timer EXCEPT !.elapsed = @ + 1]
    /\ UNCHANGED <<calendarSources, cacheEvents, runs, saved, edits, presented,
                   fnArgs, fnRet, vault>>

\* The callback of window.setInterval: () => this.refresh().
IntervalElapses ==
    /\ timer.period > 0
    /\ timer.elapsed = timer.period
    /\ Len(runs) < MaxRuns
    /\ runs' = Append(runs, refreshCall)
    /\ timer' = [timer EXCEPT !.elapsed = 0, !.fires = @ + 1, !.changed = FALSE]
    /\ UNCHANGED <<calendarSources, cacheEvents, saved, edits, presented,
                   fnArgs, fnRet, vault>>

\* onChange of the 'Refresh Interval' slider or text field.
SetRefreshInterval(value) ==
    /\ value # timer.refreshIntervalMinutes
    /\ value >= 5 /\ value <= 60
    /\ timer' = [timer EXCEPT !.refreshIntervalMinutes = value, !.changed = TRUE]
    /\ saved' = saveData(calendarSources, cacheEvents)
    /\ UNCHANGED <<calendarSources, cacheEvents, runs, edits, presented,
                   fnArgs, fnRet, vault>>

(***************************************************************************)
(* Text whose characters matter (summaries, file names) is a sequence of   *)
(* characters, each a one-character string; EmDash stands for U+2014.      *)
(***************************************************************************)
EmDash == "EM DASH"

DigitChars == <<"0", "1", "2", "3", "4", "5", "6", "7", "8", "9">>

Digits2(n) == <<DigitChars[((n \div 10) % 10) + 1], DigitChars[(n % 10) + 1]>>
Digits3(n) == <<DigitChars[((n \div 100) % 10) + 1]>> \o Digits2(n % 100)
Digits4(n) == <<DigitChars[((n \div 1000) % 10) + 1]>> \o Digits3(n % 1000)

ISODateChars(t) ==
    LET c == CivilFromDays(t \div MsPerDay)
    IN  Digits4(c.y) \o <<"-">> \o Digits2(c.m) \o <<"-">> \o Digits2(c.d)

\* The characters of Date.prototype.toISOString().
toISOChars(t) ==
    LET r == t % MsPerDay
    IN  ISODateChars(t) \o <<"T">> \o Digits2(r \div 3600000) \o <<":">>
          \o Digits2((r % 3600000) \div 60000) \o <<":">>
          \o Digits2((r % 60000) \div 1000) \o <<".">> \o Digits3(r % 1000) \o <<"Z">>

\* The characters of a date string of the model: an ISO string or "not a date".
CharsOfDateString(str) ==
    IF DateParse(str).tag = "num" THEN toISOChars(DateParse(str).v)
    ELSE <<"n", "o", "t", " ", "a", " ", "d", "a", "t", "e">>

\* text.split('T')[0]
splitT0(text) ==
    IF \E i \in 1..Len(text) : text[i] = "T"
    THEN SubSeq(text, 1, (CHOOSE i \in 1..Len(text) :
                             text[i] = "T" /\ \A j \in 1..(i - 1) : text[j] # "T") - 1)
    ELSE text

\* text.replace(/[\/\\?%*:|"<>]/g, '-')
replaceUnsafeByDash(text) ==
    [i \in 1..Len(text) |->
        IF text[i] \in {"/", "\\", "?", "%", "*", ":", "|", "\"", "<", ">"}
        THEN "-" ELSE text[i]]

\* text.replace(char, '') with a string pattern: the first occurrence only.
replaceFirst(text, char) ==
    IF \E i \in 1..Len(text) : text[i] = char
    THEN LET i == CHOOSE i \in 1..Len(text) :
                     text[i] = char /\ \A j \in 1..(i - 1) : text[j] # char
         IN  SubSeq(text, 1, i - 1) \o SubSeq(text, i + 1, Len(text))
    ELSE text

\* text.trim(), text.toLowerCase() (on the letters of the model), and
\* text.replace(/\.md$/, '').
RECURSIVE trimStart(_)
trimStart(text) ==
    IF text # <<>> /\ Head(text) = " " THEN trimStart(Tail(text)) ELSE text

RECURSIVE trimEnd(_)
trimEnd(text) ==
    IF text # <<>> /\ text[Len(text)] = " "
    THEN trimEnd(SubSeq(text, 1, Len(text) - 1)) ELSE text

trim(text) == trimEnd(trimStart(text))

toLowerCase(text) ==
    [i \in 1..Len(text) |->
        CASE text[i] = "S" -> "s" [] text[i] = "E" -> "e" [] text[i] = "T" -> "t"
          [] text[i] = "Z" -> "z" [] OTHER -> text[i]]

DotMd == <<".", "m", "d">>

removeDotMd(text) ==
    IF Len(text) >= 3 /\ SubSeq(text, Len(text) - 2, Len(text)) = DotMd
    THEN SubSeq(text, 1, Len(text) - 3) ELSE text

(***************************************************************************)
(* CalendarEventsModal.onChooseSuggestion: the file name of the event's    *)
(* note, the lookup of an existing note, and the creation of a new one.    *)
(* The events of this part carry a summary.                                *)
(***************************************************************************)
NoSummary == [present |-> FALSE, text |-> <<>>]
Summary(text) == [present |-> TRUE, text |-> text]

NoteEvent(uid, start, end, summary) ==
    [uid |-> uid, recurrenceId |-> NoRecurrenceId, start |-> start, end |-> end,
     recurrenceRule |-> NoRule, duration |-> "undefined", calendarSource |-> "a",
     summary |-> summary]

sanitizedSummary(event) ==
    LET replaced == IF event.summary.present
                    THEN replaceUnsafeByDash(event.summary.text)
                    ELSE <<"E", "v", "e", "n", "t">>
    IN  replaceFirst(replaceFirst(replaceFirst(replaceFirst(replaced, "["), "]"), "^"), "$")

\* event.start?.date instanceof Date ? ISO date + " — " : event.start?.date ?? ''
datePart(event) ==
    CASE event.start.kind = "Date" ->
            splitT0(toISOChars(event.start.t)) \o <<" ", EmDash, " ">>
      [] event.start.kind = "string" -> CharsOfDateString(event.start.s)
      [] OTHER -> <<>>

fileName(event) == datePart(event) \o sanitizedSummary(event) \o DotMd

\* The notes findByNameOrAlias matches: those whose basename is the target
\* without ".md", trimmed, whatever the case.  (The notes the plugin creates
\* have no aliases.)
findByNameOrAlias(files, target) ==
    LET sanitizedTarget == trim(removeDotMd(target))
    IN  {file \in files :
            toLowerCase(removeDotMd(file.name)) = toLowerCase(sanitizedTarget)}

\* The event a note is for: its summary and the instant it starts at.
NoteKey(event) == <<event.summary, getTime(normalizeDate(event.start))>>

\* A vault without notes, no selection made yet.  files are the notes (the
\* name, and as history the event it was created for), creating the calls
\* of vault.create not yet settled, chosen the history of the selections.
EmptyVault == [files |-> {}, creating |-> <<>>, chosen |-> <<>>]

MaxChoices == 2

\* A selection in the picker closes it.  An existing note is opened;
\* otherwise vault.create is called and the handler returns.  (toISOString
\* throws on an Invalid Date: the selection then does nothing more.)
onChooseSuggestion(k) ==
    /\ presented.open
    /\ k \in 1..Len(presented.events)
    /\ Len(vault.chosen) < MaxChoices
    /\ presented.events[k].start.kind # "InvalidDate"
    /\ LET event == presented.events[k]
           name == fileName(event)
           existingFile == findByNameOrAlias(vault.files, name)
           choice == [event |-> event, fileName |-> name,
                      existing |-> existingFile # {},
                      hadNote |-> \E file \in vault.files : file.key = NoteKey(event)]
       IN  vault' = [vault EXCEPT
                        !.chosen = Append(@, choice),
                        !.creating = IF existingFile # {} THEN @
                                     ELSE Append(@, [name |-> name, key |-> NoteKey(event)])]
    /\ presented' = NotOpened
    /\ UNCHANGED <<calendarSources, cacheEvents, runs, saved, edits, fnArgs, fnRet, timer>>

RemoveAt(seq, i) == SubSeq(seq, 1, i - 1) \o SubSeq(seq, i + 1, Len(seq))

\* vault.create resolves: the note exists and is opened.
CreateResolves(i) ==
    /\ i \in 1..Len(vault.creating)
    /\ \A file \in vault.files : file.name # vault.creating[i].name
    /\ vault' = [vault EXCEPT !.files = @ \cup {vault.creating[i]},
                              !.creating = RemoveAt(@, i)]
    /\ UNCHANGED <<calendarSources, cacheEvents, runs, saved, edits, presented,
                   fnArgs, fnRet, timer>>

\* vault.create rejects, a file of that path existing: nothing is opened.
CreateRejects(i) ==
    /\ i \in 1..Len(vault.creating)
    /\ \E file \in vault.files : file.name = vault.creating[i].name
    /\ vault' = [vault EXCEPT !.creating = RemoveAt(@, i)]
    /\ UNCHANGED <<calendarSources, cacheEvents, runs, saved, edits, presented,
                   fnArgs, fnRet, timer>>

\* The app is restarted: loadSettings() reads the cache back from its JSON.
Reload ==
    /\ vault.creating = <<>>
    /\ toJSONEvents(cacheEvents) # cacheEvents
    /\ cacheEvents' = toJSONEvents(cacheEvents)
    /\ presented' = NotOpened
    /\ UNCHANGED <<calendarSources, runs, saved, edits, fnArgs, fnRet, timer, vault>>


(***************************************************************************)
(* The plugin after onload(): the settings as loadSettings() found them,   *)
(* no refresh() called yet.                                                *)
(***************************************************************************)
LoadedSources == {<<>>, <<"a">>, <<"a", "b">>}

LoadedCaches ==
    {<<>>, toJSONEvents(normalizedEvents(Feed("a", 1), "a"))}

Init ==
    /\ calendarSources \in LoadedSources
    /\ cacheEvents \in LoadedCaches
    /\ runs = <<>>
    /\ saved = NothingSaved
    /\ edits = 0
    /\ presented = NotOpened
    /\ fnArgs = NoArgs
    /\ fnRet = NotCalled
    /\ timer = Registered(FALSE, DefaultRefreshIntervalMinutes)
    /\ vault = EmptyVault

Next ==
    \/ refresh
    \/ \E r \in 1..MaxRuns : FetchThrows(r)
    \/ \E r \in 1..MaxRuns : FetchFails(r)
    \/ \E r \in 1..MaxRuns : FetchSucceeds(r)
    \/ AddCalendar
    \/ \E index \in 1..MaxSources : EditUrl(index)
    \/ \E index \in 1..MaxSources : RemoveCalendar(index)

Spec == Init /\ [][Next]_vars

(***************************************************************************)
(* refresh() followed by the command: the sources stay as loaded, in       *)
(* either order, while runs and the command interleave.                    *)
(***************************************************************************)
OrderedSources == {<<"a">>, <<"a", "b">>, <<"b", "a">>}

InitPipeline ==
    /\ calendarSources \in OrderedSources
    /\ cacheEvents \in LoadedCaches
    /\ runs = <<>>
    /\ saved = NothingSaved
    /\ edits = 0
    /\ presented = NotOpened
    /\ fnArgs = NoArgs
    /\ fnRet = NotCalled
    /\ timer = Registered(FALSE, DefaultRefreshIntervalMinutes)
    /\ vault = EmptyVault

NextPipeline ==
    \/ refresh
    \/ \E r \in 1..MaxRuns : FetchThrows(r)
    \/ \E r \in 1..MaxRuns : FetchFails(r)
    \/ \E r \in 1..MaxRuns : FetchSucceeds(r)
    \/ CreateNoteFromEvent

SpecPipeline == InitPipeline /\ [][NextPipeline]_vars

\* The plugin left idle while a pure function is called directly.
InitPlugin ==
    /\ calendarSources = <<>>
    /\ cacheEvents = <<>>
    /\ runs = <<>>
    /\ saved = NothingSaved
    /\ edits = 0
    /\ presented = NotOpened
    /\ timer = Registered(FALSE, DefaultRefreshIntervalMinutes)
    /\ vault = EmptyVault

(***************************************************************************)
(* The interval over time: the plugin loaded on either platform with any   *)
(* of the interval settings and no source, so that each refresh() returns  *)
(* at once.                                                                *)
(***************************************************************************)
InitTimer ==
    /\ calendarSources = <<>>
    /\ cacheEvents = <<>>
    /\ runs = <<>>
    /\ saved = NothingSaved
    /\ edits = 0
    /\ presented = NotOpened
    /\ fnArgs = NoArgs
    /\ fnRet = NotCalled
    /\ \E isMobileApp \in BOOLEAN, minutes \in RefreshIntervals :
          timer = Registered(isMobileApp, minutes)
    /\ vault = EmptyVault

NextTimer ==
    \/ Tick
    \/ IntervalElapses
    \/ \E value \in RefreshIntervals : SetRefreshInterval(value)

SpecTimer == InitTimer /\ [][NextTimer]_vars

(***************************************************************************)
(* Direct calls of expandRelevantEvents, on every list of at most          *)
(* MaxExpandLen events: plain and recurring ones, with dates that are Date *)
(* objects, persisted strings, Invalid Date or undefined.                  *)
(***************************************************************************)
MaxExpandLen == 2

Daily == Rule(NineOClock, MsPerDay)
HalfDaily == Rule(NineOClock, 12 * 60 * 60 * 1000)
Weekly == Rule(0, 7 * MsPerDay)

BaseDatePairs ==
    {<<DateObj(NineOClock), DateObj(NineOClock + QuarterHour)>>,
     <<UndefinedDate, DateObj(NineOClock + QuarterHour)>>,
     <<DateObj(NineOClock), UndefinedDate>>,
     <<DateStr(toISOString(NineOClock)), DateStr(toISOString(NineOClock + QuarterHour))>>,
     <<DateObj(NineOClock), InvalidDate>>}

ExpandEvents ==
    {Event("u1", NoRecurrenceId, p[1], p[2], r, "PT15M", "a") :
        p \in BaseDatePairs, r \in {NoRule, Daily, HalfDaily, Weekly}}
      \cup {Event("u2", RecurrenceId("r1"), DateObj(NineOClock),
                  DateObj(NineOClock + QuarterHour), r, "undefined", "b") :
              r \in {NoRule, Daily}}

SeqsUpTo(S, n) == UNION {[1..k -> S] : k \in 0..n}

InitExpand ==
    /\ InitPlugin
    /\ fnArgs \in [events : SeqsUpTo(ExpandEvents, MaxExpandLen), now : Nows]
    /\ fnRet = NotCalled

CallExpandRelevantEvents ==
    /\ ~fnRet.called
    /\ fnRet' = expandRelevantEvents(fnArgs.events, fnArgs.now)
    /\ UNCHANGED <<calendarSources, cacheEvents, runs, saved, edits, presented, fnArgs,
                   timer, vault>>

NextExpand == CallExpandRelevantEvents

SpecExpand == InitExpand /\ [][NextExpand]_vars

(***************************************************************************)
(* expandRelevantEvents applied to its own result, with the same now: the  *)
(* outer call is not made when the inner one throws.                       *)
(***************************************************************************)
InitReexpand ==
    /\ InitPlugin
    /\ fnArgs \in [events : SeqsUpTo(ExpandEvents, MaxExpandLen), now : Nows]
    /\ fnRet = NotCalled

CallExpandRelevantEventsTwice ==
    /\ ~fnRet.called
    /\ LET once == expandRelevantEvents(fnArgs.events, fnArgs.now)
           twice == IF once.threw THEN Threw
                    ELSE expandRelevantEvents(once.value[1], fnArgs.now)
       IN  fnRet' = Returned([once |-> once, twice |-> twice])
    /\ UNCHANGED <<calendarSources, cacheEvents, runs, saved, edits, presented, fnArgs,
                   timer, vault>>

NextReexpand == CallExpandRelevantEventsTwice

SpecReexpand == InitReexpand /\ [][NextReexpand]_vars


(***************************************************************************)
(* Direct calls of eventRelevance, on every pair of date values.           *)
(***************************************************************************)

RelevanceEvents ==
    {Event("u1", NoRecurrenceId, s, e, NoRule, "undefined", "a") :
        s \in DateValues, e \in DateValues}

InitRelevance ==
    /\ InitPlugin
    /\ fnArgs \in [events : {<<ev>> : ev \in RelevanceEvents}, now : Nows]
    /\ fnRet = NotCalled

CallEventRelevance ==
    /\ ~fnRet.called
    /\ fnRet' = Returned(eventRelevance(fnArgs.events[1], fnArgs.now))
    /\ UNCHANGED <<calendarSources, cacheEvents, runs, saved, edits, presented, fnArgs,
                   timer, vault>>

NextRelevance == CallEventRelevance

SpecRelevance == InitRelevance /\ [][NextRelevance]_vars

(***************************************************************************)
(* Direct calls of normalizeDate, on the start and the end of an event as  *)
(* the map of refresh() calls it: every pair of date values, the null of a *)
(* reloaded Invalid Date included.                                         *)
(***************************************************************************)
NormalizeEvents ==
    {Event("u1", NoRecurrenceId, s, e, NoRule, "undefined", "a") :
        s \in DateValues \cup {NullDate}, e \in DateValues \cup {NullDate}}

InitNormalize ==
    /\ InitPlugin
    /\ fnArgs \in [events : {<<ev>> : ev \in NormalizeEvents}, now : {0}]
    /\ fnRet = NotCalled

CallNormalizeDate ==
    /\ ~fnRet.called
    /\ fnRet' = Returned(<<normalizeDate(fnArgs.events[1].start),
                           normalizeDate(fnArgs.events[1].end)>>)
    /\ UNCHANGED <<calendarSources, cacheEvents, runs, saved, edits, presented, fnArgs,
                   timer, vault>>

NextNormalize == CallNormalizeDate

SpecNormalize == InitNormalize /\ [][NextNormalize]_vars

(***************************************************************************)
(* Two direct calls of eventRelevance, each on its own event and now, to   *)
(* compare the two scores.                                                 *)
(***************************************************************************)
MonotonicPoints ==
    {0} \cup {NowA + o : o \in {0 - searchLookbehind, -60000, -1, 1, 60000,
                                searchLookahead}}

MonotonicEvents ==
    {Event("u1", NoRecurrenceId, DateObj(s), DateObj(e), NoRule, "undefined", "a") :
        s \in MonotonicPoints, e \in MonotonicPoints}

InitMonotonic ==
    /\ InitPlugin
    /\ fnArgs \in [events : [1..2 -> MonotonicEvents], nows : Nows \X Nows]
    /\ fnRet = NotCalled

CallEventRelevanceTwice ==
    /\ ~fnRet.called
    /\ fnRet' = Returned(<<eventRelevance(fnArgs.events[1], fnArgs.nows[1]),
                           eventRelevance(fnArgs.events[2], fnArgs.nows[2])>>)
    /\ UNCHANGED <<calendarSources, cacheEvents, runs, saved, edits, presented, fnArgs,
                   timer, vault>>

NextMonotonic == CallEventRelevanceTwice

SpecMonotonic == InitMonotonic /\ [][NextMonotonic]_vars

(***************************************************************************)
(* The command over any loaded cache of at most MaxCacheLen events: events *)
(* that are ongoing, just ended, recently ended, about to start, upcoming  *)
(* or out of the window at NowA, with Date, string or undefined dates, one *)
(* recurring series, and events one of whose dates is no instant.          *)
(***************************************************************************)
MaxCacheLen == 3

PickerEvents ==
    {Event("ongoing", NoRecurrenceId, DateObj(NowA - 60000), DateObj(NowA + 60000),
           NoRule, "undefined", "a"),
     Event("ongoing-since-epoch", NoRecurrenceId, DateObj(0), DateObj(NowA + 60000),
           NoRule, "undefined", "a"),
     Event("ongoing-reloaded", NoRecurrenceId, DateStr(toISOString(NowA - 60000)),
           DateStr(toISOString(NowA + 60000)), NoRule, "undefined", "b"),
     Event("ended-1h-ago", NoRecurrenceId, DateObj(NowA - searchLookbehind - 1),
           DateObj(NowA - searchLookbehind), NoRule, "undefined", "a"),
     Event("ended-1min-ago", NoRecurrenceId, DateObj(NowA - searchLookbehind),
           DateObj(NowA - 60000), NoRule, "undefined", "a"),
     Event("ended-1ms-ago", NoRecurrenceId, DateObj(NowA - 60000), DateObj(NowA - 1),
           NoRule, "undefined", "b"),
     Event("starts-in-1min", NoRecurrenceId, DateObj(NowA + 60000),
           DateObj(NowA + searchLookahead), NoRule, "undefined", "a"),
     Event("starts-in-24h", NoRecurrenceId, DateObj(NowA + searchLookahead),
           DateObj(NowA + searchLookahead + 1), NoRule, "undefined", "b"),
     Event("ended-long-ago", NoRecurrenceId, DateObj(0),
           DateObj(NowA - searchLookbehind - 1), NoRule, "undefined", "a"),
     Event("no-dates", NoRecurrenceId, UndefinedDate, UndefinedDate,
           NoRule, "undefined", "b"),
     Event("standup", NoRecurrenceId, DateObj(NineOClock),
           DateObj(NineOClock + QuarterHour), Daily, "undefined", "a"),
     Event("end-unparseable", NoRecurrenceId, DateObj(NowA + 60000),
           DateStr("not a date"), NoRule, "undefined", "a"),
     Event("start-invalid", NoRecurrenceId, InvalidDate,
           DateObj(NowA + 60000), NoRule, "undefined", "b"),
     Event("end-null-reloaded", NoRecurrenceId, DateStr(toISOString(NowA - 60000)),
           NullDate, NoRule, "undefined", "b")}

InitPicker ==
    /\ calendarSources = <<>>
    /\ cacheEvents \in SeqsUpTo(PickerEvents, MaxCacheLen)
    /\ runs = <<>>
    /\ saved = NothingSaved
    /\ edits = 0
    /\ presented = NotOpened
    /\ fnArgs = NoArgs
    /\ fnRet = NotCalled
    /\ timer = Registered(FALSE, DefaultRefreshIntervalMinutes)
    /\ vault = EmptyVault

NextPicker == CreateNoteFromEvent

SpecPicker == InitPicker /\ [][NextPicker]_vars

(***************************************************************************)
(* The picker in use: the cache as a refresh left it, the command, the     *)
(* selections, the creations, and the restart of the app.                  *)
(***************************************************************************)
MaxNotesLen == 2

NoteSummaries ==
    {Summary(<<"S", "y", "n", "c">>),
     Summary(<<"[", "[", "1", ":", "1", "]", "]">>),
     Summary(<<"T", "e", "s", "t", "?", "?">>),
     NoSummary}

NoteEvents ==
    {NoteEvent("n1", DateObj(NowA - searchLookbehind), DateObj(NowA - 60000), summary) :
        summary \in NoteSummaries}

InitNotes ==
    /\ calendarSources = <<>>
    /\ cacheEvents \in SeqsUpTo(NoteEvents, MaxNotesLen) \ {<<>>}
    /\ runs = <<>>
    /\ saved = NothingSaved
    /\ edits = 0
    /\ presented = NotOpened
    /\ fnArgs = NoArgs
    /\ fnRet = NotCalled
    /\ timer = Registered(FALSE, DefaultRefreshIntervalMinutes)
    /\ vault = EmptyVault

NextNotes ==
    \/ CreateNoteFromEvent
    \/ \E k \in 1..MaxNotesLen : onChooseSuggestion(k)
    \/ \E i \in 1..MaxChoices : CreateResolves(i)
    \/ \E i \in 1..MaxChoices : CreateRejects(i)
    \/ Reload

SpecNotes == InitNotes /\ [][NextNotes]_vars

(***************************************************************************)
(* Properties of the presented list (checked under SpecPicker).            *)
(***************************************************************************)

IsInstant(d) == normalizeDate(d).kind = "Date"
InstantOf(d) == normalizeDate(d).t

IsOngoing(ev, now) ==
    /\ IsInstant(ev.start) /\ IsInstant(ev.end)
    /\ InstantOf(ev.start) < now /\ now < InstantOf(ev.end)

IsPresented(ev) == \E i \in 1..Len(presented.events) : presented.events[i] = ev

\* C1: in the presented list every ongoing event (start < now < end) comes
\* before every event that is not ongoing (recently ended or upcoming).
C1_OngoingFirst ==
    presented.open =>
        \A i, j \in 1..Len(presented.events) :
            (/\ IsOngoing(presented.events[i], presented.now)
             /\ ~IsOngoing(presented.events[j], presented.now)) => i < j

\* C2: the presented list is built from the occurrences of the expanded
\* cache: its events are exactly the occurrences, of expandRelevantEvents on
\* the cache for the window around now, that the filter keeps.
C2_PresentedFromExpandedOccurrences ==
    LET expanded == expandRelevantEvents(cacheEvents, presented.now)
    IN  (presented.open /\ ~expanded.threw) =>
            {presented.events[i] : i \in 1..Len(presented.events)}
              = {expanded.value[1][i] : i \in
                    {k \in 1..Len(expanded.value[1]) :
                        keepPair(<<expanded.value[1][k],
                                   eventRelevance(expanded.value[1][k], presented.now)>>)}}

\* C3: a cached event is in the presented list if and only if eventRelevance
\* does not score it -1 (not relevant).
C3_PresentedIffRelevant ==
    presented.open =>
        \A k \in 1..Len(cacheEvents) :
            IsPresented(cacheEvents[k])
              <=> eventRelevance(cacheEvents[k], presented.now) # -1

(***************************************************************************)
(* Properties of refresh() (checked under Spec).                           *)
(***************************************************************************)
InFlight == {r \in 1..Len(runs) : runs[r].pc = "fetching"}

\* The result list of a run from the fetches it made: the normalised events
\* of each fetched source, concatenated in the order of the fetches.
RECURSIVE ResultOf(_)
ResultOf(fetched) ==
    IF fetched = <<>> THEN <<>>
    ELSE normalizedEvents(Feed(Head(fetched)[1], Head(fetched)[2]), Head(fetched)[1])
           \o ResultOf(Tail(fetched))

\* C4: with several sources configured, a run suspended at a fetch is not
\* ended by that fetch failing: whatever the fetch returns, the run goes on
\* to the next source or completes and replaces the cache.
C4_FailedFetchDoesNotAbortRefresh ==
    [][\A r \in 1..Len(runs) :
          (runs[r].pc = "fetching" /\ Len(calendarSources) >= 2)
             => runs'[r].pc \in {"fetching", "done"}]_vars

\* C5: at most one refresh() is in flight (suspended at a fetch) at any time.
C5_AtMostOneRefreshInFlight == Cardinality(InFlight) <= 1

\* The urls of a sequence of fetches.
UrlsOf(fetched) == [k \in 1..Len(fetched) |-> fetched[k][1]]

\* C6: the cache is replaced wholesale: whenever settings.cache.events
\* changes, a run completes in that step and the new cache is the complete
\* result list of that one run, the concatenation in fetch order of the
\* normalised events of every source it fetched (which, when the source
\* list was never edited, are the configured sources in their order); the
\* local result of a run in progress is always the concatenation over the
\* fetches it has made, and is not the cache's to see before the run ends.
C6_CacheReplacedWholesale ==
    /\ [](\A r \in InFlight : runs[r].result = ResultOf(runs[r].fetched))
    /\ [][cacheEvents' # cacheEvents =>
            \E r \in InFlight :
                /\ runs'[r].pc = "done"
                /\ \E version \in FeedVersions :
                      LET fetched == Append(runs[r].fetched, <<runs[r].url, version>>)
                      IN  /\ cacheEvents' = ResultOf(fetched)
                          /\ edits = 0 => UrlsOf(fetched) = calendarSources]_vars

C6_Witness ==
    /\ \E r \in 1..Len(runs) : runs[r].pc = "done"
    /\ \E r \in InFlight : Len(runs[r].result) = 1 /\ runs[r].result # SubSeq(cacheEvents, 1, 1)
    /\ Len(cacheEvents) = 2
    /\ cacheEvents[1].calendarSource = "a"
    /\ cacheEvents[2].calendarSource = "b"


(***************************************************************************)
(* Properties of expandRelevantEvents (checked under SpecExpand).          *)
(***************************************************************************)
WindowInstants(ev, now) ==
    extendByRecurrenceRule(ev.recurrenceRule, now - searchLookbehind,
                           now + searchLookahead)

\* The number of occurrences an event is due: 1 when it is not recurring.
OccurrenceCount(ev, now) ==
    IF ev.recurrenceRule.present THEN Len(WindowInstants(ev, now)) ELSE 1

\* The number of occurrences due to the events before position j of the list.
RECURSIVE CountBefore(_, _, _)
CountBefore(events, j, now) ==
    IF j = 1 THEN 0
    ELSE CountBefore(events, j - 1, now) + OccurrenceCount(events[j - 1], now)

IsPlain(ev) == ~ev.recurrenceRule.present
HasDuration(ev) == ev.start.kind = "Date" /\ ev.end.kind = "Date"
IsMalformed(ev) ==
    normalizeDate(ev.start).kind = "undefined" \/ normalizeDate(ev.end).kind = "undefined"

\* C7: an event without a recurrence rule comes back as exactly one
\* occurrence, equal to the input event in every field: a list of such events
\* is returned as it is, and in any returned list the event stands, unchanged,
\* at the place the occurrences of the events before it leave to it.
C7_PlainEventReturnedUnchanged ==
    fnRet.called =>
        /\ (\A j \in 1..Len(fnArgs.events) : IsPlain(fnArgs.events[j]))
              => ~fnRet.threw /\ fnRet.value[1] = fnArgs.events
        /\ ~fnRet.threw =>
              /\ Len(fnRet.value[1])
                   = CountBefore(fnArgs.events, Len(fnArgs.events) + 1, fnArgs.now)
              /\ \A j \in 1..Len(fnArgs.events) :
                    IsPlain(fnArgs.events[j]) =>
                        fnRet.value[1][CountBefore(fnArgs.events, j, fnArgs.now) + 1]
                          = fnArgs.events[j]

C7_Witness ==
    /\ fnRet.called /\ ~fnRet.threw
    /\ Len(fnArgs.events) = 2
    /\ fnArgs.events[1].recurrenceRule.present
    /\ OccurrenceCount(fnArgs.events[1], fnArgs.now) = 2
    /\ IsPlain(fnArgs.events[2])
    /\ fnArgs.events[2].duration = "PT15M"
    /\ fnRet.value[1][3] = fnArgs.events[2]

\* What C8 says of the occurrences of event ev found in out after position base.
C8_OccurrencesOf(ev, now, out, base) ==
    LET inst == WindowInstants(ev, now)
        D == ev.end.t - ev.start.t
        id == IF ev.recurrenceId.present THEN ev.recurrenceId.str ELSE ev.uid
    IN  /\ \A i \in 1..Len(inst) :
              /\ out[base + i].start = DateObj(inst[i])
              /\ out[base + i].end = DateObj(inst[i] + D)
              /\ out[base + i].uid = id \o "-" \o toISOString(inst[i])
        /\ \A i, k \in 1..Len(inst) : i # k => out[base + i].uid # out[base + k].uid

\* C8: a recurring event whose start and end are instants, with duration
\* D = end - start and k instants of its rule in [now - 1h, now + 24h], is
\* expanded into exactly k occurrences; the i-th starts at the i-th instant d,
\* ends at d + D and has uid (recurrenceId ?? uid) + "-" + ISO(d); the k uids
\* are pairwise distinct; with k = 0 there is no occurrence and no error.
C8_RecurringExpandedToKOccurrences ==
    fnRet.called =>
        /\ (\A j \in 1..Len(fnArgs.events) :
               IsPlain(fnArgs.events[j]) \/ HasDuration(fnArgs.events[j]))
              => ~fnRet.threw
        /\ ~fnRet.threw =>
              /\ Len(fnRet.value[1])
                   = CountBefore(fnArgs.events, Len(fnArgs.events) + 1, fnArgs.now)
              /\ \A j \in 1..Len(fnArgs.events) :
                    (~IsPlain(fnArgs.events[j]) /\ HasDuration(fnArgs.events[j])) =>
                        C8_OccurrencesOf(fnArgs.events[j], fnArgs.now, fnRet.value[1],
                                         CountBefore(fnArgs.events, j, fnArgs.now))

C8_Witness ==
    /\ fnRet.called /\ ~fnRet.threw
    /\ Len(fnArgs.events) = 2
    /\ ~IsPlain(fnArgs.events[1]) /\ HasDuration(fnArgs.events[1])
    /\ OccurrenceCount(fnArgs.events[1], fnArgs.now) = 0
    /\ ~IsPlain(fnArgs.events[2]) /\ HasDuration(fnArgs.events[2])
    /\ fnArgs.events[2].recurrenceId.present
    /\ OccurrenceCount(fnArgs.events[2], fnArgs.now) = 2
    /\ Len(fnRet.value[1]) = 2
    /\ fnRet.value[1][1].uid = "r1-1970-01-03T09:00:00.000Z"
    /\ fnRet.value[1][2].uid = "r1-1970-01-04T09:00:00.000Z"
    /\ fnRet.value[1][2].end = DateObj(3 * MsPerDay + NineOClock + QuarterHour)

\* A recurring event with a missing base date and an instant in the window.
C9_MalformedWithInstants(ev, now) ==
    ~IsPlain(ev) /\ IsMalformed(ev) /\ OccurrenceCount(ev, now) >= 1

RECURSIVE C9_CountOfOthers(_, _)
C9_CountOfOthers(events, now) ==
    IF events = <<>> THEN 0
    ELSE (IF C9_MalformedWithInstants(Head(events), now) THEN 0
          ELSE OccurrenceCount(Head(events), now))
         + C9_CountOfOthers(Tail(events), now)

\* C9: a recurring event whose base start or end is missing (undefined after
\* normalisation) while its rule has an instant in the window does not make
\* expandRelevantEvents throw: it contributes no occurrence, and the list
\* returned holds the occurrences of all the other events.
C9_MalformedRecurringEventSkipped ==
    (/\ fnRet.called
     /\ \E j \in 1..Len(fnArgs.events) :
            C9_MalformedWithInstants(fnArgs.events[j], fnArgs.now)
     /\ \A j \in 1..Len(fnArgs.events) :
            IsPlain(fnArgs.events[j]) \/ HasDuration(fnArgs.events[j])
               \/ IsMalformed(fnArgs.events[j]))
        => /\ ~fnRet.threw
           /\ Len(fnRet.value[1]) = C9_CountOfOthers(fnArgs.events, fnArgs.now)

(***************************************************************************)
(* Properties of eventRelevance (checked under SpecRelevance).             *)
(***************************************************************************)
\* C10: for an event whose start and end both normalise to valid instants,
\* eventRelevance returns Number.MAX_VALUE exactly when start < now < end.
C10_OngoingExactlyWhenStrictlyInside ==
    (/\ fnRet.called
     /\ IsInstant(fnArgs.events[1].start)
     /\ IsInstant(fnArgs.events[1].end))
        => (fnRet.value[1] = NumberMAX_VALUE
              <=> /\ InstantOf(fnArgs.events[1].start) < fnArgs.now
                  /\ fnArgs.now < InstantOf(fnArgs.events[1].end))

\* The categories of spec 4.3 for an event whose dates are valid instants.
IsRecentlyEnded(ev, now) ==
    /\ IsInstant(ev.start) /\ IsInstant(ev.end)
    /\ ~IsOngoing(ev, now)
    /\ InstantOf(ev.end) < now /\ InstantOf(ev.end) >= now - searchLookbehind

IsUpcoming(ev, now) ==
    /\ IsInstant(ev.start) /\ IsInstant(ev.end)
    /\ ~IsOngoing(ev, now) /\ ~IsRecentlyEnded(ev, now)
    /\ InstantOf(ev.start) > now /\ InstantOf(ev.start) <= now + searchLookahead

\* C11: an event with valid start and end, not ongoing, that ended before now
\* and not before now - 1h (the bound included) scores floor((now - end) /
\* 60000); one that ended more than 1h ago and does not start within the next
\* 24h scores -1.
C11_RecentlyEndedScoresMinutesSinceEnd ==
    LET ev == fnArgs.events[1]
        now == fnArgs.now
    IN  fnRet.called =>
          /\ IsRecentlyEnded(ev, now)
                => fnRet.value[1] = (now - InstantOf(ev.end)) \div 60000
          /\ (/\ IsInstant(ev.start) /\ IsInstant(ev.end)
              /\ InstantOf(ev.end) < now - searchLookbehind
              /\ ~(/\ InstantOf(ev.start) > now
                   /\ InstantOf(ev.start) <= now + searchLookahead))
                => fnRet.value[1] = -1

\* C12: an event with valid start and end, neither ongoing nor recently
\* ended, that starts after now (strictly) and not after now + 24h (the bound
\* included) scores floor((start - now) / 60000); such an event that starts
\* more than 24h ahead scores -1.
C12_UpcomingScoresMinutesUntilStart ==
    LET ev == fnArgs.events[1]
        now == fnArgs.now
    IN  fnRet.called =>
          /\ IsUpcoming(ev, now)
                => fnRet.value[1] = (InstantOf(ev.start) - now) \div 60000
          /\ (/\ IsInstant(ev.start) /\ IsInstant(ev.end)
              /\ ~IsOngoing(ev, now) /\ ~IsRecentlyEnded(ev, now)
              /\ InstantOf(ev.start) > now + searchLookahead)
                => fnRet.value[1] = -1

(***************************************************************************)
(* Properties of events whose dates are no instants (checked under         *)
(* SpecPicker).                                                            *)
(***************************************************************************)
\* A date that is missing, an unparseable string, Invalid Date or null.
IsUnresolvable(d) ==
    \/ d.kind \in {"undefined", "null", "InvalidDate"}
    \/ d.kind = "string" /\ DateParse(d.s).tag # "num"

\* C13: an event whose start or end is missing, an unparseable string or
\* otherwise no valid instant is scored -1 by eventRelevance and is not in
\* the list the command presents.
C13_UnresolvableInstantNotRelevant ==
    presented.open =>
        \A k \in 1..Len(cacheEvents) :
            (IsUnresolvable(cacheEvents[k].start) \/ IsUnresolvable(cacheEvents[k].end))
               => /\ eventRelevance(cacheEvents[k], presented.now) = -1
                  /\ ~IsPresented(cacheEvents[k])

C13_Witness ==
    /\ presented.open
    /\ Len(cacheEvents) = 3
    /\ cacheEvents[1].start = InvalidDate
    /\ cacheEvents[2].end = DateStr("not a date")
    /\ ~IsUnresolvable(cacheEvents[3].start) /\ ~IsUnresolvable(cacheEvents[3].end)
    /\ presented.events = <<cacheEvents[3]>>

(***************************************************************************)
(* Properties of two scores (checked under SpecMonotonic).                 *)
(***************************************************************************)
\* C14: eventRelevance is monotonic inside each category: of two recently
\* ended events (or one event at two values of now) the one with the smaller
\* now - end has no larger relevance number; of two upcoming events the one
\* with the smaller start - now has no larger relevance number.
C14_MonotonicInsideCategory ==
    LET e1 == fnArgs.events[1]
        e2 == fnArgs.events[2]
        n1 == fnArgs.nows[1]
        n2 == fnArgs.nows[2]
        r1 == fnRet.value[1][1]
        r2 == fnRet.value[1][2]
    IN  fnRet.called =>
          /\ (/\ IsRecentlyEnded(e1, n1) /\ IsRecentlyEnded(e2, n2)
              /\ n1 - InstantOf(e1.end) <= n2 - InstantOf(e2.end)) => r1 <= r2
          /\ (/\ IsUpcoming(e1, n1) /\ IsUpcoming(e2, n2)
              /\ InstantOf(e1.start) - n1 <= InstantOf(e2.start) - n2) => r1 <= r2

(***************************************************************************)
(* Properties of normalizeDate (checked under SpecNormalize).              *)
(***************************************************************************)
\* What C15 says normalizeDate returns for the date value d.
C15_Normalized(d) ==
    IF d.kind = "Date" THEN d
    ELSE IF d.kind = "string" /\ DateParse(d.s).tag = "num"
         THEN DateObj(DateParse(d.s).v)
         ELSE UndefinedDate

\* C15: normalizeDate returns either a valid instant or undefined: a Date
\* that is a valid instant as it is, the instant of a string that parses,
\* and undefined for every other input (an unparseable string, undefined, a
\* Date that is no valid instant).
C15_NormalizeDateValidInstantOrUndefined ==
    fnRet.called =>
        /\ fnRet.value[1][1] = C15_Normalized(fnArgs.events[1].start)
        /\ fnRet.value[1][2] = C15_Normalized(fnArgs.events[1].end)
        /\ \A k \in 1..2 : fnRet.value[1][k].kind \in {"Date", "undefined"}

(***************************************************************************)
(* Properties of refresh() followed by the command (checked under          *)
(* SpecPipeline).                                                          *)
(***************************************************************************)
\* The orders of n sources.
Orders(n) == {p \in [1..n -> 1..n] : \A i, j \in 1..n : p[i] = p[j] => i = j}

\* The fetches of a successful run over sources, each feed at its version.
SuccessfulFetches(sources, versionOf) ==
    [k \in 1..Len(sources) |-> <<sources[k], versionOf[sources[k]]>>]

\* The list the command presents at now after a successful refresh of the
\* sources taken in order p.
PresentedFor(sources, p, versionOf, now) ==
    relevantEvents(ResultOf(SuccessfulFetches([k \in 1..Len(sources) |-> sources[p[k]]],
                                              versionOf)), now)

\* The number of times ev is in list.
CountIn(ev, list) == Cardinality({i \in 1..Len(list) : list[i] = ev})

\* Two lists with the same events that differ at most in the order of events
\* of equal relevance.
SameUpToTies(l1, l2, now) ==
    /\ Len(l1) = Len(l2)
    /\ \A i \in 1..Len(l1) :
          /\ eventRelevance(l1[i], now) = eventRelevance(l2[i], now)
          /\ CountIn(l1[i], l1) = CountIn(l1[i], l2)

\* The command runs on the cache of a successful refresh of the sources.
AfterSuccessfulRefresh(versionOf) ==
    /\ \E r \in 1..Len(runs) : runs[r].pc = "done"
    /\ cacheEvents = ResultOf(SuccessfulFetches(calendarSources, versionOf))

\* C16 as stated: whatever the order of the sources, with the same events
\* per source and the same now, the command after a successful refresh
\* presents the same list.
C16_SourceOrderDoesNotMatter ==
    [][presented' # presented =>
         \A versionOf \in [Urls -> FeedVersions] :
            AfterSuccessfulRefresh(versionOf) =>
               \A p \in Orders(Len(calendarSources)) :
                  presented'.events
                    = PresentedFor(calendarSources, p, versionOf, presented'.now)]_vars

\* C16 amended: whatever the order of the sources, the command after a
\* successful refresh presents the same events with the same relevance at
\* every position: the lists differ at most in the order of events of equal
\* relevance.
C16_SourceOrderMattersOnlyForTies ==
    [][presented' # presented =>
         \A versionOf \in [Urls -> FeedVersions] :
            AfterSuccessfulRefresh(versionOf) =>
               \A p \in Orders(Len(calendarSources)) :
                  SameUpToTies(presented'.events,
                               PresentedFor(calendarSources, p, versionOf, presented'.now),
                               presented'.now)]_vars

C16_Witness ==
    /\ presented.open
    /\ \E r \in 1..Len(runs) : runs[r].pc = "done"
    /\ calendarSources = <<"b", "a">>
    /\ Len(cacheEvents) = 2
    /\ presented.events = cacheEvents
    /\ eventRelevance(cacheEvents[1], presented.now)
         = eventRelevance(cacheEvents[2], presented.now)
    /\ cacheEvents[1].calendarSource = "b"
    /\ cacheEvents[2].calendarSource = "a"

(***************************************************************************)
(* Properties of the automatic refresh (checked under SpecTimer).          *)
(***************************************************************************)
\* C17: off the mobile app the interval's refreshes come every X minutes, X
\* the refreshIntervalMinutes configured at the time: once the setting has
\* been the same since the last interval refresh, the next one comes when X
\* minutes have passed, not before and not after; on the mobile app no
\* interval refresh ever comes.
C17_IntervalFollowsSetting ==
    [][/\ timer'.fires # timer.fires =>
            /\ ~timer.isMobileApp
            /\ ~timer.changed => timer.elapsed = timer.refreshIntervalMinutes
       /\ (timer'.elapsed > timer.elapsed /\ ~timer.isMobileApp /\ ~timer.changed)
             => timer.elapsed < timer.refreshIntervalMinutes]_vars

(***************************************************************************)
(* Properties of the notes (checked under SpecNotes).                      *)
(***************************************************************************)
UnsafeChars == {"/", "\\", "?", "%", "*", ":", "|", "\"", "<", ">", "[", "]", "^", "$"}

\* C18: the file name generated for a chosen event, whether its start is a
\* Date or (after a restart) a string, contains none of the characters
\* / \ ? % * : | " < > [ ] ^ $ and, its start date known, has the form
\* 'YYYY-MM-DD (em dash) <summary>.md'.
C18_FileNameSafeAndDatePrefixed ==
    \A j \in 1..Len(vault.chosen) :
        LET event == vault.chosen[j].event
            name == vault.chosen[j].fileName
        IN  /\ \A i \in 1..Len(name) : name[i] \notin UnsafeChars
            /\ IsInstant(event.start) =>
                  /\ Len(name) >= 16
                  /\ SubSeq(name, 1, 13)
                       = ISODateChars(InstantOf(event.start)) \o <<" ", EmDash, " ">>
                  /\ SubSeq(name, Len(name) - 2, Len(name)) = DotMd

\* C19: no event (summary and start instant) ever has two notes, and when an
\* event is chosen whose note exists, the note is found and opened and no
\* creation is started.
C19_NoDuplicateNote ==
    /\ \A f1, f2 \in vault.files : f1.key = f2.key => f1 = f2
    /\ \A j \in 1..Len(vault.chosen) :
          vault.chosen[j].hadNote => vault.chosen[j].existing

(***************************************************************************)
(* Properties of refresh() while the settings tab is in use (checked under *)
(* Spec).                                                                  *)
(***************************************************************************)
\* C20: the sources of a refresh cycle are those configured when the run
\* started: the cache a run writes is the result of one fetch for each of
\* them, also when a source is added or removed while the run is suspended.
C20_SourcesFixedForRefreshCycle ==
    [][cacheEvents' # cacheEvents =>
          \E r \in InFlight :
              /\ runs'[r].pc = "done"
              /\ \E version \in FeedVersions :
                    LET fetched == Append(runs[r].fetched, <<runs[r].url, version>>)
                    IN  /\ cacheEvents' = ResultOf(fetched)
                        /\ Len(fetched) = Len(runs[r].sources)]_vars

\* The first call of expandRelevantEvents has returned a list.
C21_ExpandedOnce ==
    fnRet.called /\ ~fnRet.value[1].once.threw

(***************************************************************************)
(* C21: no element returned by expandRelevantEvents carries a recurrence   *)
(* rule, and expanding the returned list again, with the same now, returns *)
(* that list unchanged.                                                    *)
(***************************************************************************)
C21_OccurrenceNeverExpandableAgain ==
    C21_ExpandedOnce =>
        LET out == fnRet.value[1].once.value[1]
        IN  /\ \A i \in 1..Len(out) : ~out[i].recurrenceRule.present
            /\ fnRet.value[1].twice = fnRet.value[1].once

\* A series with at least two occurrences in the window was expanded, next
\* to nothing or to other events, and the result was expanded again.
C21_Witness ==
    /\ C21_ExpandedOnce
    /\ \E j \in 1..Len(fnArgs.events) :
          /\ fnArgs.events[j].recurrenceRule.present
          /\ OccurrenceCount(fnArgs.events[j], fnArgs.now) >= 2
    /\ Len(fnRet.value[1].once.value[1]) >= 2
    /\ ~fnRet.value[1].twice.threw

(***************************************************************************)
(* C22: a run of refresh() that completes while a run that started after   *)
(* it has already completed does not change the cache: the cache keeps the *)
(* result of the run that started last.  (runs is in the order of the      *)
(* calls.)                                                                 *)
(***************************************************************************)
C22_LastStartedRunWins ==
    [][\A r \in InFlight :
          (/\ runs'[r].pc = "done"
           /\ \E later \in (r + 1)..Len(runs) : runs[later].pc = "done")
             => cacheEvents' = cacheEvents]_vars

\* Run r ends early in this step: at the call, or at a failed fetch.
C23_EndsEarly(r) ==
    \/ r = Len(runs) + 1 /\ Len(runs') = r /\ runs'[r].pc = "nosource"
    \/ r \in InFlight /\ runs'[r].pc = "aborted"

(***************************************************************************)
(* C23: a run of refresh() that ends early, at the call with no calendar   *)
(* source configured or at a fetch answered with a status other than 200   *)
(* or with no text, leaves settings.cache.events as it was and saves       *)
(* nothing: the saved data are as they were.                               *)
(***************************************************************************)
C23_EarlyReturnLeavesCacheAndSavesNothing ==
    [][(\E r \in 1..(Len(runs) + 1) : C23_EndsEarly(r))
          => cacheEvents' = cacheEvents /\ saved' = saved]_vars

\* A run has ended at a failed fetch while the cache held loaded events and
\* nothing had been saved since the plugin was loaded.
C23_Witness ==
    /\ \E r \in 1..Len(runs) : runs[r].pc = "aborted"
    /\ cacheEvents # <<>>
    /\ saved = NothingSaved

\* Run r completes in this step: at the call, or by replacing the cache.
C24_Completes(r) ==
    \/ r = Len(runs) + 1 /\ Len(runs') = r /\ runs'[r].pc = "nosource"
    \/ r \in InFlight /\ runs'[r].pc = "done"

(***************************************************************************)
(* C24: when a call of refresh() completes, by replacing the cache or at   *)
(* the check for configured sources, every event of settings.cache.events  *)
(* belongs to a calendar source that is configured at that moment; with no *)
(* source configured the cache holds no event.                             *)
(***************************************************************************)
C24_CacheOnlyOfConfiguredSources ==
    [][(\E r \in 1..(Len(runs) + 1) : C24_Completes(r))
          => \A i \in 1..Len(cacheEvents') :
                \E k \in 1..Len(calendarSources') :
                    cacheEvents'[i].calendarSource = calendarSources'[k]]_vars

====
